---- MODULE Spec2Model ----
(***************************************************************************)
(* A model of yubistack/utils.py, the helper utilities of the Yubikey     *)
(* validation stack: modhex decoding, the CRC-16 of a decrypted token,     *)
(* the request signer, the KSM lookup of decrypt_otp, the counter          *)
(* comparators, the sync response parser and the WSGI response builder.    *)
(*                                                                         *)
(* Text is modelled as a sequence of one-character strings, so that        *)
(* startswith, split, translate and the %s formatting are computed         *)
(* character by character as Python computes them.  A Python dict is a     *)
(* sequence of [k, v] records with distinct keys, in insertion order.  A   *)
(* Python value that may be of several types is a record with a tag.       *)
(***************************************************************************)
EXTENDS Integers, Sequences, FiniteSets, TLC

VARIABLES pc, call, otp, crc, outcomes

vars == <<pc, call, otp, crc, outcomes>>

(***************************************************************************)
(* Bounds of the model.                                                    *)
(***************************************************************************)
\* yk_counter and yk_use range over -1..MaxCounter
MaxCounter == 2
\* longest text given to modhex2hex
MaxModhexLen == 2
\* most fields of a mapping given to sign
MaxFields == 2
\* most KSM endpoints configured for decrypt_otp
MaxUrls == 3
\* most lines of a sync response
MaxSyncLines == 2
\* most extra fields given to wsgi_response
MaxExtra == 2
\* the tokens given to calculate_crc include the blocks whose first byte
\* is 0..MaxTokenVariant
MaxTokenVariant == 1

(***************************************************************************)
(* Characters and text.  Control lists the characters of code points 0 to  *)
(* 31 in order and Printable those of code points 32 to 126; a character   *)
(* that a TLA+ string cannot hold is written by its name (VT is code point *)
(* 11, FS to US are 28 to 31, backtick is 96), which no character equals.  *)
(***************************************************************************)
Control ==
  << "NUL", "SOH", "STX", "ETX", "EOT", "ENQ", "ACK", "BEL",
     "BS", "\t", "\n", "VT", "\f", "\r", "SO", "SI",
     "DLE", "DC1", "DC2", "DC3", "DC4", "NAK", "SYN", "ETB",
     "CAN", "EM", "SUB", "ESC", "FS", "GS", "RS", "US" >>

Printable ==
  << " ", "!", "\"", "#", "$", "%", "&", "'", "(", ")", "*", "+",
     ",", "-", ".", "/", "0", "1", "2", "3", "4", "5", "6", "7",
     "8", "9", ":", ";", "<", "=", ">", "?", "@", "A", "B", "C",
     "D", "E", "F", "G", "H", "I", "J", "K", "L", "M", "N", "O",
     "P", "Q", "R", "S", "T", "U", "V", "W", "X", "Y", "Z", "[",
     "\\", "]", "^", "_", "backtick", "a", "b", "c", "d", "e", "f", "g",
     "h", "i", "j", "k", "l", "m", "n", "o", "p", "q", "r", "s",
     "t", "u", "v", "w", "x", "y", "z", "{", "|", "}", "~" >>

\* ord(c): the code point of a character (ASCII)
Ord(c) ==
  IF \E i \in 1..Len(Control) : Control[i] = c
  THEN (CHOOSE i \in 1..Len(Control) : Control[i] = c) - 1
  ELSE 31 + (CHOOSE i \in 1..Len(Printable) : Printable[i] = c)

Range(s) == { s[i] : i \in 1..Len(s) }

\* s[from:] of Python, from counted from 1
Drop(s, n) == IF n >= Len(s) THEN <<>> ELSE SubSeq(s, n + 1, Len(s))

\* s[:n] of Python
Take(s, n) == IF n >= Len(s) THEN s ELSE SubSeq(s, 1, n)

\* str.startswith
StartsWith(s, prefix) ==
  /\ Len(s) >= Len(prefix)
  /\ \A i \in 1..Len(prefix) : s[i] = prefix[i]

\* the order of Python's str comparison: by code point, a proper prefix first
RECURSIVE StrLess(_, _)
StrLess(a, b) ==
  IF b = <<>> THEN FALSE
  ELSE IF a = <<>> THEN TRUE
  ELSE IF a[1] = b[1] THEN StrLess(Tail(a), Tail(b))
  ELSE Ord(a[1]) < Ord(b[1])

Digits == <<"0", "1", "2", "3", "4", "5", "6", "7", "8", "9">>

IsDigit(c) == c \in Range(Digits)

DigitVal(c) == (CHOOSE i \in 1..10 : Digits[i] = c) - 1

\* str(n) of a non-negative int
RECURSIVE NatToStr(_)
NatToStr(n) ==
  IF n < 10 THEN <<Digits[n + 1]>>
  ELSE NatToStr(n \div 10) \o <<Digits[(n % 10) + 1]>>

\* str(n) of an int
IntToStr(n) == IF n < 0 THEN <<"-">> \o NatToStr(0 - n) ELSE NatToStr(n)

\* int(s) of a text of decimal digits
RECURSIVE DecToInt(_)
DecToInt(s) ==
  IF s = <<>> THEN 0
  ELSE 10 * DecToInt(SubSeq(s, 1, Len(s) - 1)) + DigitVal(s[Len(s)])

\* str.isdigit (ASCII): non-empty and all decimal digits
StrIsDigit(s) == s # <<>> /\ \A i \in 1..Len(s) : IsDigit(s[i])

\* a Python value: an int n, a str s, a bool b, a dict d, an exception e
\* raised in place of a value, or nothing yet; the tag t says which, and the
\* other fields are blank
Value(t, b, n, s, d, e) == [t |-> t, b |-> b, n |-> n, s |-> s, d |-> d, e |-> e]

IntV(n) == Value("int", FALSE, n, <<>>, <<>>, "none")

StrV(s) == Value("str", FALSE, 0, s, <<>>, "none")

BoolV(b) == Value("bool", b, 0, <<>>, <<>>, "none")

DictV(d) == Value("dict", FALSE, 0, <<>>, d, "none")

Raised(error) == Value("raise", FALSE, 0, <<>>, <<>>, error)

NoResult == Value("none", FALSE, 0, <<>>, <<>>, "none")

\* '%s' % value, of an int or a str
Render(val) == IF val.t = "int" THEN IntToStr(val.n) ELSE val.s

(***************************************************************************)
(* Python dicts, in insertion order.                                       *)
(***************************************************************************)
DictKeys(d) == { d[i].k : i \in 1..Len(d) }

DictHas(d, key) == key \in DictKeys(d)

DictGet(d, key) == d[CHOOSE i \in 1..Len(d) : d[i].k = key].v

\* d[key] = val: an existing key keeps its place
DictSet(d, key, val) ==
  IF DictHas(d, key)
  THEN [i \in 1..Len(d) |-> IF d[i].k = key THEN [k |-> key, v |-> val] ELSE d[i]]
  ELSE Append(d, [k |-> key, v |-> val])

\* dict(pairs) and dict.update(pairs): the pairs are set in order
RECURSIVE DictUpdate(_, _)
DictUpdate(d, pairs) ==
  IF pairs = <<>> THEN d
  ELSE DictUpdate(DictSet(d, pairs[1].k, pairs[1].v), Tail(pairs))

(***************************************************************************)
(* counters_eq, counters_gt, counters_gte                                  *)
(***************************************************************************)
counters_eq(params1, params2) ==
  /\ params1.yk_counter = params2.yk_counter
  /\ params1.yk_use = params2.yk_use

\* counters_gt with the tiebreaker dropped
counters_gt_no_tiebreak(params1, params2) ==
  params1.yk_counter > params2.yk_counter

counters_gt(params1, params2) ==
  \/ params1.yk_counter > params2.yk_counter
  \/ /\ params1.yk_counter = params2.yk_counter
     /\ params1.yk_use > params2.yk_use

\* counters_gte comparing yk_use strictly
counters_gte_strict(params1, params2) ==
  \/ params1.yk_counter > params2.yk_counter
  \/ /\ params1.yk_counter = params2.yk_counter
     /\ params1.yk_use > params2.yk_use

counters_gte(params1, params2) ==
  \/ params1.yk_counter > params2.yk_counter
  \/ /\ params1.yk_counter = params2.yk_counter
     /\ params1.yk_use >= params2.yk_use

CounterParams == [yk_counter : -1..MaxCounter, yk_use : -1..MaxCounter]

(***************************************************************************)
(* MODHEX_MAP and modhex2hex                                               *)
(***************************************************************************)
ModhexChars ==
  <<"c", "b", "d", "e", "f", "g", "h", "i", "j", "k", "l", "n", "r", "t", "u", "v">>

HexChars ==
  <<"0", "1", "2", "3", "4", "5", "6", "7", "8", "9", "a", "b", "c", "d", "e", "f">>

\* str.maketrans(frm, to): the table of the characters of frm
MakeTrans(frm, to) ==
  [c \in Range(frm) |-> to[CHOOSE i \in 1..Len(frm) : frm[i] = c]]

\* str.translate(table): a character the table does not hold is kept
Translate(s, table) ==
  [i \in 1..Len(s) |-> IF s[i] \in DOMAIN table THEN table[s[i]] ELSE s[i]]

MODHEX_MAP == MakeTrans(ModhexChars, HexChars)

modhex2hex(modhex) == Translate(modhex, MODHEX_MAP)

\* the texts given to modhex2hex: modhex symbols and characters that are none
ModhexInputChars == Range(ModhexChars) \cup {"a", "0", "C"}

ModhexInputs == UNION { [1..n -> ModhexInputChars] : n \in 0..MaxModhexLen }

(***************************************************************************)
(* sign                                                                    *)
(***************************************************************************)
\* the keys in the order the dict holds them
KeysAsInserted(data) == [i \in 1..Len(data) |-> data[i].k]

\* sorted(keys) of a set of str keys
RECURSIVE SortedSet(_)
SortedSet(S) ==
  IF S = {} THEN <<>>
  ELSE LET least == CHOOSE x \in S : \A y \in S \ {x} : StrLess(x, y)
       IN  <<least>> \o SortedSet(S \ {least})

\* sorted(data.keys())
SortedKeys(data) == SortedSet(DictKeys(data))

\* sep.join(parts)
RECURSIVE Join(_, _)
Join(sep, parts) ==
  IF parts = <<>> THEN <<>>
  ELSE IF Len(parts) = 1 THEN parts[1]
  ELSE parts[1] \o sep \o Join(sep, Tail(parts))

\* '&'.join(['%s=%s' % (k, data[k]) for k in keys])
QueryString(data) ==
  LET keys == SortedKeys(data)
  IN  Join(<<"&">>, [i \in 1..Len(keys) |->
                       keys[i] \o <<"=">> \o Render(DictGet(data, keys[i]))])

\* base64(HMAC-SHA-1(apikey, message)), kept symbolic: a signature is
\* the key and the message it was computed from, so that two signatures are
\* equal exactly when both are
HmacSha1Base64(apikey, message) == [key |-> apikey, msg |-> message]

sign(data, apikey) == HmacSha1Base64(apikey, QueryString(data))

NoSignature == [key |-> "none", msg |-> <<>>]

\* the mappings given to sign
SignKeys == { <<"a">>, <<"b">>, <<"a", "b">>, <<"B">> }

SignValues == { IntV(1), IntV(20), StrV(<<"1">>), StrV(<<"x">>) }

ApiKeys == { "key1", "key2" }

\* the dicts of at most n entries with keys of K and values of V, in every
\* insertion order
DictsOf(K, V, n) ==
  { d \in UNION { [1..m -> [k : K, v : V]] : m \in 0..n } :
      \A i, j \in 1..Len(d) : i # j => d[i].k # d[j].k }

SignInputs == DictsOf(SignKeys, SignValues, MaxFields)

(***************************************************************************)
(* wsgi_response                                                           *)
(***************************************************************************)
\* str.replace(old, new) for one-character old and new
ReplaceChar(s, old, new) == [i \in 1..Len(s) |-> IF s[i] = old THEN new ELSE s[i]]

\* datetime.isoformat().replace('.', 'Z')[:-2]
Timestamp(isoformat) ==
  LET z == ReplaceChar(isoformat, ".", "Z")
  IN  IF Len(z) <= 2 THEN <<>> ELSE SubSeq(z, 1, Len(z) - 2)

\* resp_data: status and t, then every extra field set over them
RespData(resp, now, extra) ==
  DictUpdate(<<[k |-> <<"s", "t", "a", "t", "u", "s">>, v |-> resp],
               [k |-> <<"t">>, v |-> StrV(now)]>>,
             extra)

\* the response, one entry per line 'key=value\r\n', before the closing
\* '\r\n': v is the text of the value, but for the h line, whose value is
\* the signature sig
ResponseLines(signature, resp, now, extra) ==
  <<[k |-> <<"h">>, v |-> <<>>, sig |-> signature],
    [k |-> <<"t">>, v |-> now, sig |-> NoSignature]>>
  \o [i \in 1..Len(extra) |->
        [k |-> extra[i].k, v |-> Render(extra[i].v), sig |-> NoSignature]]
  \o <<[k |-> <<"s", "t", "a", "t", "u", "s">>, v |-> Render(resp), sig |-> NoSignature]>>

wsgi_response(resp, apikey, extra, status, isoformat) ==
  LET now == Timestamp(isoformat)
      resp_data == RespData(resp, now, extra)
      signature == sign(resp_data, apikey)
  IN  [fn |-> "wsgi_response", resp |-> resp, apikey |-> apikey, extra |-> extra,
       now |-> now, resp_data |-> resp_data,
       started |-> IntToStr(status) \o <<" ", "O", "K">>,
       ret |-> ResponseLines(signature, resp, now, extra)]

\* the arguments of wsgi_response and the clock's readings
WsgiResps == { StrV(<<"O", "K">>), StrV(<<"B", "A", "D", "_", "O", "T", "P">>) }

WsgiExtraKeys ==
  { <<"o", "t", "p">>, <<"s", "l">>, <<"s", "t", "a", "t", "u", "s">>, <<"t">> }

WsgiExtraValues == { StrV(<<"x">>), IntV(5) }

WsgiExtras == DictsOf(WsgiExtraKeys, WsgiExtraValues, MaxExtra)

ClockReadings ==
  { <<"2", "0", "1", "5", "-", "0", "4", "-", "1", "1", "T",
      "1", "2", ":", "0", "0", ":", "0", "1", ".", "2", "5", "0", "0", "0", "0">>,
    <<"2", "0", "1", "5", "-", "0", "4", "-", "1", "1", "T",
      "1", "2", ":", "0", "0", ":", "0", "2">> }

(***************************************************************************)
(* parse_sync_response                                                     *)
(***************************************************************************)
\* the place of the first sep in s at or after place from, 0 when none
RECURSIVE Find(_, _, _)
Find(s, sep, from) ==
  IF from + Len(sep) - 1 > Len(s) THEN 0
  ELSE IF \A i \in 1..Len(sep) : s[from + i - 1] = sep[i] THEN from
  ELSE Find(s, sep, from + 1)

\* str.split(sep): the pieces between the occurrences of sep, left to right
RECURSIVE Split(_, _)
Split(s, sep) ==
  LET at == Find(s, sep, 1)
  IN  IF at = 0 THEN <<s>>
      ELSE <<SubSeq(s, 1, at - 1)>> \o Split(Drop(s, at + Len(sep) - 1), sep)

\* line.split('=', 1) of a line holding '=', as a key and a value
SplitKeyValue(line) ==
  LET at == Find(line, <<"=">>, 1)
  IN  [k |-> SubSeq(line, 1, at - 1), v |-> StrV(Drop(line, at))]

\* filter of a sequence
RECURSIVE SelectLines(_)
SelectLines(ls) ==
  IF ls = <<>> THEN <<>>
  ELSE IF Find(ls[1], <<"=">>, 1) # 0 THEN <<ls[1]>> \o SelectLines(Tail(ls))
  ELSE SelectLines(Tail(ls))

\* dict([line.split('=', 1) for line in sync_response.split('\r\n') if '=' in line])
SyncParams(sync_response) ==
  LET kept == SelectLines(Split(sync_response, <<"\r", "\n">>))
  IN  DictUpdate(<<>>, [i \in 1..Len(kept) |-> SplitKeyValue(kept[i])])

Letters ==
  { Printable[i] : i \in 34..59 } \cup { Printable[i] : i \in 66..91 }

\* a regular expression of the checks: alternatives, each a literal text or
\* one or more characters of a class
Lit(text) == [kind |-> "lit", text |-> text, class |-> {}]

Plus(class) == [kind |-> "plus", text |-> <<>>, class |-> class]

\* re.match: the regular expression matches at the start of the text; what
\* follows the match is not looked at
ReMatch(regex, text) ==
  \E alt \in regex :
    IF alt.kind = "lit" THEN StartsWith(text, alt.text)
    ELSE text # <<>> /\ text[1] \in alt.class

NumberOrMinusOne == { Lit(<<"-", "1">>), Plus(Range(Digits)) }

\* the checks of parse_sync_response, by field name
SyncChecks ==
  << [name |-> <<"m", "o", "d", "i", "f", "i", "e", "d">>, regex |-> NumberOrMinusOne],
     [name |-> <<"y", "k", "_", "p", "u", "b", "l", "i", "c", "n", "a", "m", "e">>,
      regex |-> { Plus(Range(ModhexChars)) }],
     [name |-> <<"y", "k", "_", "c", "o", "u", "n", "t", "e", "r">>,
      regex |-> NumberOrMinusOne],
     [name |-> <<"y", "k", "_", "u", "s", "e">>, regex |-> NumberOrMinusOne],
     [name |-> <<"y", "k", "_", "h", "i", "g", "h">>, regex |-> NumberOrMinusOne],
     [name |-> <<"y", "k", "_", "l", "o", "w">>, regex |-> NumberOrMinusOne],
     [name |-> <<"n", "o", "n", "c", "e">>,
      regex |-> { Plus(Letters \cup Range(Digits)) }] >>

\* a check passes when the name is in params and its value matches
SyncCheckPasses(params, check) ==
  /\ DictHas(params, check.name)
  /\ ReMatch(check.regex, DictGet(params, check.name).s)

\* int(value) if value.isdigit() else value
SyncConvert(val) == IF StrIsDigit(val.s) THEN IntV(DecToInt(val.s)) ELSE val

\* the loop over the checks: a name that passes has its value converted, a
\* name that does not is logged and params is left as it is
RECURSIVE SyncApplyChecks(_, _)
SyncApplyChecks(params, checks) ==
  IF checks = <<>> THEN params
  ELSE SyncApplyChecks(
         IF SyncCheckPasses(params, checks[1])
         THEN DictSet(params, checks[1].name,
                      SyncConvert(DictGet(params, checks[1].name)))
         ELSE params,
         Tail(checks))

parse_sync_response(sync_response) ==
  LET params == SyncParams(sync_response)
  IN  [fn |-> "parse_sync_response", sync_response |-> sync_response,
       params |-> params,
       logged |-> { SyncChecks[i].name : i \in
                      { j \in 1..Len(SyncChecks) : ~SyncCheckPasses(params, SyncChecks[j]) } },
       ret |-> SyncApplyChecks(params, SyncChecks)]

\* the lines a sync response is made of
SyncLines ==
  { <<"y", "k", "_", "c", "o", "u", "n", "t", "e", "r", "=", "a", "b", "c">>,
    <<"y", "k", "_", "c", "o", "u", "n", "t", "e", "r", "=", "5">>,
    <<"y", "k", "_", "u", "s", "e", "=", "1", "2", "x">>,
    <<"y", "k", "_", "u", "s", "e", "=", "-", "1">>,
    <<"n", "o", "n", "c", "e", "=", "a", "=", "b">>,
    <<"m", "o", "d", "i", "f", "i", "e", "d", "=", "0", "0", "7">>,
    <<"j", "u", "n", "k">>,
    <<"y", "k", "_", "p", "u", "b", "l", "i", "c", "n", "a", "m", "e", "=", "c", "b", "d">> }

\* the responses: at most MaxSyncLines lines, joined by '\r\n'
SyncResponses ==
  { Join(<<"\r", "\n">>, ls) : ls \in UNION { [1..n -> SyncLines] : n \in 0..MaxSyncLines } }

(***************************************************************************)
(* decrypt_otp                                                             *)
(***************************************************************************)
\* the characters str.split() takes for whitespace, among the ASCII ones:
\* code points 9 to 13, 28 to 31 and 32
Whitespace ==
  { c \in Range(Control) \cup Range(Printable) :
      Ord(c) \in (9..13) \cup (28..32) }

\* str.split(): the runs of characters between runs of whitespace
RECURSIVE SplitWhitespace(_)
SplitWhitespace(s) ==
  IF s = <<>> THEN <<>>
  ELSE IF s[1] \in Whitespace THEN SplitWhitespace(Tail(s))
  ELSE LET ends == { i \in 1..Len(s) : i = Len(s) \/ s[i + 1] \in Whitespace }
           last == CHOOSE i \in ends : \A j \in ends : i <= j
       IN  <<SubSeq(s, 1, last)>> \o SplitWhitespace(Drop(s, last))

\* the characters int() skips around the digits, among the ASCII ones: code
\* points 9 to 13 and 32 (28 to 31 are whitespace for str.split() only)
IntWhitespace == { c \in Whitespace : Ord(c) \in (9..13) \cup {32} }

\* the text int() reads, without the whitespace before and after it
RECURSIVE StripIntWhitespace(_)
StripIntWhitespace(s) ==
  IF s = <<>> THEN s
  ELSE IF s[1] \in IntWhitespace THEN StripIntWhitespace(Tail(s))
  ELSE IF s[Len(s)] \in IntWhitespace THEN StripIntWhitespace(SubSeq(s, 1, Len(s) - 1))
  ELSE s

UpperHex == <<"A", "B", "C", "D", "E", "F">>

IsHexDigit(c) == c \in Range(HexChars) \cup Range(UpperHex)

HexDigitVal(c) ==
  IF c \in Range(HexChars) THEN (CHOOSE i \in 1..16 : HexChars[i] = c) - 1
  ELSE (CHOOSE i \in 1..6 : UpperHex[i] = c) + 9

\* the digits of an int literal: hex digits, a single _ allowed between two
RECURSIVE HexDigitsValid(_)
HexDigitsValid(s) ==
  /\ s # <<>>
  /\ IsHexDigit(s[1])
  /\ \/ Len(s) = 1
     \/ IF s[2] = "_" THEN HexDigitsValid(Drop(s, 2)) ELSE HexDigitsValid(Tail(s))

RECURSIVE HexDigitsValue(_)
HexDigitsValue(s) ==
  IF s = <<>> THEN 0
  ELSE IF s[Len(s)] = "_" THEN HexDigitsValue(SubSeq(s, 1, Len(s) - 1))
  ELSE 16 * HexDigitsValue(SubSeq(s, 1, Len(s) - 1)) + HexDigitVal(s[Len(s)])

\* int(text, 16): surrounding whitespace, a sign and a 0x prefix are allowed;
\* ok is FALSE where Python raises ValueError
IntBase16(text) ==
  LET stripped == StripIntWhitespace(text)
      signed == stripped # <<>> /\ stripped[1] \in {"+", "-"}
      body == IF signed THEN Tail(stripped) ELSE stripped
      prefixed == StartsWith(body, <<"0", "x">>) \/ StartsWith(body, <<"0", "X">>)
      afterPrefix == IF prefixed THEN Drop(body, 2) ELSE body
      digits == IF prefixed /\ afterPrefix # <<>> /\ afterPrefix[1] = "_"
                THEN Tail(afterPrefix) ELSE afterPrefix
  IN  IF HexDigitsValid(digits)
      THEN [ok |-> TRUE,
            val |-> IF signed /\ stripped[1] = "-" THEN 0 - HexDigitsValue(digits)
                    ELSE HexDigitsValue(digits)]
      ELSE [ok |-> FALSE, val |-> 0]

\* dict([(k, int(v, 16)) for k, v in data.items()])
DecryptorFields(data) ==
  IF \A i \in 1..Len(data) : IntBase16(data[i].v.s).ok
  THEN DictV([i \in 1..Len(data) |->
                [k |-> data[i].k, v |-> IntV(IntBase16(data[i].v.s).val)]])
  ELSE Raised("ValueError")

\* key, val = i.split('='); resp[key] = int(val, 16), for every i of data, in
\* order: the first i that is not one key and one value in base 16 raises
RECURSIVE KsmFields(_, _)
KsmFields(resp, data) ==
  IF data = <<>> THEN DictV(resp)
  ELSE LET parts == Split(data[1], <<"=">>)
       IN  IF Len(parts) # 2 THEN Raised("ValueError")
           ELSE IF ~IntBase16(parts[2]).ok THEN Raised("ValueError")
           ELSE KsmFields(DictSet(resp, parts[1], IntV(IntBase16(parts[2]).val)),
                          Tail(data))

\* req.text.split()[1:]
KsmData(text) ==
  LET tokens == SplitWhitespace(text)
  IN  IF tokens = <<>> THEN <<>> ELSE Tail(tokens)

\* the state of a call: urls, the endpoints queried so far with what each
\* replied, the place i of the endpoint the loop is at, and how it ended
OtpState(at, urls, i, queried, how, result) ==
  [at |-> at, urls |-> urls, i |-> i, queried |-> queried, how |-> how,
   result |-> result]

\* the loop body with the return of an accepted response left out: the loop
\* goes on to the next endpoint
OtpAfterReply_no_return(st, reply) ==
  LET queried == Append(st.queried, [url |-> st.urls[st.i], reply |-> reply])
  IN  IF reply.kind = "error"
      THEN OtpState("raised", st.urls, st.i, queried, "get", Raised(reply.error))
      ELSE IF StartsWith(reply.text, <<"O", "K">>) /\ st.i = Len(st.urls)
      THEN LET resp == KsmFields(<<>>, KsmData(reply.text))
           IN  OtpState(IF resp.t = "raise" THEN "raised" ELSE "returned",
                        st.urls, st.i, queried, "accepted", resp)
      ELSE IF st.i < Len(st.urls)
      THEN OtpState("loop", st.urls, st.i + 1, queried, "none", NoResult)
      ELSE OtpState("returned", st.urls, st.i, queried, "exhausted", BoolV(FALSE))

\* one turn of the loop over urls: requests.get(url), then the response is
\* accepted when its text starts with OK, and else the next url is tried;
\* after the last url the function returns False
OtpAfterReply(st, reply) ==
  LET queried == Append(st.queried, [url |-> st.urls[st.i], reply |-> reply])
  IN  IF reply.kind = "error"
      THEN OtpState("raised", st.urls, st.i, queried, "get", Raised(reply.error))
      ELSE IF StartsWith(reply.text, <<"O", "K">>)
      THEN LET resp == KsmFields(<<>>, KsmData(reply.text))
           IN  OtpState(IF resp.t = "raise" THEN "raised" ELSE "returned",
                        st.urls, st.i, queried, "accepted", resp)
      ELSE IF st.i < Len(st.urls)
      THEN OtpState("loop", st.urls, st.i + 1, queried, "none", NoResult)
      ELSE OtpState("returned", st.urls, st.i, queried, "exhausted", BoolV(FALSE))

\* the entry of decrypt_otp: the decryptor when there is one, else the loop
\* over urls when there are any, else the error is logged and False returned
decrypt_otp(urls, decryptor) ==
  IF decryptor.present
  THEN LET fields == DecryptorFields(decryptor.data)
       IN  OtpState(IF fields.t = "raise" THEN "raised" ELSE "returned",
                    urls, 0, <<>>, "decryptor", fields)
  ELSE IF urls # <<>>
  THEN OtpState("loop", urls, 1, <<>>, "none", NoResult)
  ELSE OtpState("returned", urls, 0, <<>>, "not_configured", BoolV(FALSE))

\* the history of the results returned without a decryption
Recorded(seen, st) ==
  IF st.at = "returned" /\ st.how \in {"not_configured", "exhausted"}
  THEN seen \cup { <<st.how, st.result>> }
  ELSE seen

\* the configurations: no decryptor or one of three, and the first n endpoints
Decryptors ==
  { [present |-> FALSE, data |-> <<>>],
    [present |-> TRUE,
     data |-> <<[k |-> <<"c", "o", "u", "n", "t", "e", "r">>, v |-> StrV(<<"0", "a">>)],
                [k |-> <<"u", "s", "e">>, v |-> StrV(<<"1", "F", "\f">>)]>>],
    [present |-> TRUE,
     data |-> <<[k |-> <<"c", "o", "u", "n", "t", "e", "r">>, v |-> StrV(<<"z">>)]>>],
    [present |-> TRUE,
     data |-> <<[k |-> <<"u", "s", "e">>, v |-> StrV(<<"1", "F", "FS">>)]>>] }

Endpoints == [i \in 1..MaxUrls |-> <<"ksm", i>>]

UrlLists == { SubSeq(Endpoints, 1, n) : n \in 0..MaxUrls }

TextReply(text) == [kind |-> "text", text |-> text, error |-> "none"]

\* what an endpoint may answer: a text, or the request fails
KsmReplies ==
  { TextReply(<<"O", "K", " ", "a", "=", "1", "f", " ", "b", "=", "2">>),
    TextReply(<<"E", "R", "R", " ", "n", "o">>),
    TextReply(<<"O", "K", "A", "Y", " ", "a", "=", "1">>),
    TextReply(<<"O", "K", "a", "=", "1", " ", "b", "=", "2">>),
    TextReply(<<"O", "K", " ", "a">>),
    TextReply(<<" ", "O", "K", " ", "a", "=", "1">>),
    TextReply(<<"O", "K", "\f", "a", "=", "1", "VT", "b", "=", "2">>),
    TextReply(<<>>),
    [kind |-> "error", text |-> <<>>, error |-> "ConnectionError"] }

(***************************************************************************)
(* calculate_crc and check_crc                                             *)
(***************************************************************************)
\* a ^ b of two non-negative ints
RECURSIVE Xor(_, _)
Xor(a, b) ==
  IF a = 0 THEN b
  ELSE IF b = 0 THEN a
  ELSE 2 * Xor(a \div 2, b \div 2) + (((a % 2) + (b % 2)) % 2)

\* binascii.unhexlify: a byte from every two hex digits; ok is FALSE where
\* it raises (an odd length, a character that is no hex digit)
Unhexlify(text) ==
  IF Len(text) % 2 = 1 \/ \E i \in 1..Len(text) : ~IsHexDigit(text[i])
  THEN [ok |-> FALSE, bytes |-> <<>>]
  ELSE [ok |-> TRUE,
        bytes |-> [i \in 1..(Len(text) \div 2) |->
                     16 * HexDigitVal(text[2 * i - 1]) + HexDigitVal(text[2 * i])]]

\* crc = 0xffff
CrcStart == 65535

\* crc = crc ^ 0x8408
CrcPolynomial == 33800

\* calculate_crc(token) == 0xf0b8
CrcResidueOk == 61624

\* crc = crc ^ token[i]
CrcXorByte(c, byte) == Xor(c, byte)

\* one turn of the inner loop, the low bit read after the shift
CrcShift_bit_after_shift(c) ==
  LET shifted == c \div 2
  IN  IF shifted % 2 = 1 THEN Xor(shifted, CrcPolynomial) ELSE shifted

\* one turn of the inner loop: last_bit_true = crc & 0x1; crc = crc >> 1;
\* if last_bit_true: crc = crc ^ 0x8408
CrcShift(c) ==
  LET last_bit_true == c % 2
      shifted == c \div 2
  IN  IF last_bit_true = 1 THEN Xor(shifted, CrcPolynomial) ELSE shifted

\* the state of a call: the function called, the token and its bytes, the
\* byte i (from 0) and the turn of the inner loop the call is at, the
\* running crc and, once returned, the value returned
CrcState(at, fn, token, bytes, i, turn, c, ret) ==
  [at |-> at, fn |-> fn, token |-> token, bytes |-> bytes, i |-> i, turn |-> turn,
   crc |-> c, ret |-> ret]

\* the entry of calculate_crc: crc = 0xffff; token = unhexlify(token)
CrcEnter(fn, token) ==
  LET raw == Unhexlify(token)
  IN  IF raw.ok
      THEN CrcState("byte", fn, token, raw.bytes, 0, 0, CrcStart, NoResult)
      ELSE CrcState("raised", fn, token, <<>>, 0, 0, CrcStart, Raised("binascii.Error"))

\* what the caller gets: the crc from calculate_crc, the comparison with
\* 0xf0b8 from check_crc
CrcReturn(fn, c) ==
  IF fn = "check_crc" THEN BoolV(c = CrcResidueOk) ELSE IntV(c)

\* the head of the outer loop's body: token[i] is XORed into crc, or token
\* has no byte i and the call raises
CrcAtByte(st) ==
  IF st.i + 1 > Len(st.bytes)
  THEN [st EXCEPT !.at = "raised", !.ret = Raised("IndexError")]
  ELSE [st EXCEPT !.at = "bit", !.turn = 0,
                  !.crc = CrcXorByte(st.crc, st.bytes[st.i + 1])]

\* one turn of the inner loop; after the 8th the outer loop goes to the
\* next byte, and after byte 15 the function returns
CrcAtBit(st) ==
  LET c == CrcShift(st.crc)
  IN  IF st.turn < 7 THEN [st EXCEPT !.crc = c, !.turn = st.turn + 1]
      ELSE IF st.i < 15 THEN [st EXCEPT !.crc = c, !.turn = 0, !.i = st.i + 1, !.at = "byte"]
      ELSE [st EXCEPT !.crc = c, !.turn = 8, !.i = 16, !.at = "returned",
                      !.ret = CrcReturn(st.fn, c)]

\* the block of calculate_crc's doctest
ReferenceToken ==
  <<"1", "6", "e", "1", "e", "5", "d", "9", "d", "3", "9", "9", "1", "0", "0", "4",
    "4", "5", "2", "0", "0", "7", "e", "3", "0", "2", "0", "0", "0", "0", "0", "0">>

\* a block that ends with the complement of the CRC of its first 14 bytes
ValidToken ==
  <<"1", "6", "e", "1", "e", "5", "d", "9", "d", "3", "9", "9", "1", "0", "0", "4",
    "4", "5", "2", "0", "0", "7", "e", "3", "0", "2", "0", "0", "2", "2", "6", "d">>

\* the reference block with its first byte replaced
VariantToken(byte) ==
  <<HexChars[(byte \div 16) + 1], HexChars[(byte % 16) + 1]>> \o Drop(ReferenceToken, 2)

\* the tokens: the blocks above, and a token of 15 bytes
CrcTokens ==
  { ReferenceToken, ValidToken, Take(ReferenceToken, 30) }
  \cup { VariantToken(byte) : byte \in 0..MaxTokenVariant }

(***************************************************************************)
(* The state.  pc is "idle" before a call, "otp" inside decrypt_otp's      *)
(* endpoint loop, "crc" inside calculate_crc's loops and "done" when a     *)
(* call has returned or raised.  call is the completed call of a function  *)
(* that runs in one step.  outcomes is a history of decrypt_otp: the       *)
(* results it has returned when nothing was configured and when every      *)
(* endpoint was tried in vain, since the last call of another function.    *)
(***************************************************************************)
NoCall == [fn |-> "none"]

OtpIdle == OtpState("idle", <<>>, 0, <<>>, "none", NoResult)

CrcIdle == CrcState("idle", "none", <<>>, <<>>, 0, 0, 0, NoResult)

Init ==
  /\ pc = "idle"
  /\ call = NoCall
  /\ otp = OtpIdle
  /\ crc = CrcIdle
  /\ outcomes = {}

\* a caller applies the three comparators to two sets of parameters
CompareCounters ==
  /\ pc = "idle"
  /\ \E p1 \in CounterParams, p2 \in CounterParams :
       call' = [fn |-> "counters", params1 |-> p1, params2 |-> p2,
                 eq |-> counters_eq(p1, p2),
                 gt |-> counters_gt(p1, p2),
                 lt |-> counters_gt(p2, p1),
                 gte |-> counters_gte(p1, p2)]
  /\ pc' = "done"
  /\ otp' = OtpIdle
  /\ crc' = CrcIdle
  /\ outcomes' = {}

CallModhex2hex ==
  /\ pc = "idle"
  /\ \E modhex \in ModhexInputs :
       call' = [fn |-> "modhex2hex", modhex |-> modhex, raised |-> "none",
                 ret |-> modhex2hex(modhex)]
  /\ pc' = "done"
  /\ otp' = OtpIdle
  /\ crc' = CrcIdle
  /\ outcomes' = {}

CallSign ==
  /\ pc = "idle"
  /\ \E data \in SignInputs, apikey \in ApiKeys :
       call' = [fn |-> "sign", data |-> data, apikey |-> apikey,
                 query_string |-> QueryString(data),
                 ret |-> sign(data, apikey)]
  /\ pc' = "done"
  /\ otp' = OtpIdle
  /\ crc' = CrcIdle
  /\ outcomes' = {}

CallWsgiResponse ==
  /\ pc = "idle"
  /\ \E resp \in WsgiResps, apikey \in ApiKeys, extra \in WsgiExtras,
        isoformat \in ClockReadings :
       call' = wsgi_response(resp, apikey, extra, 200, isoformat)
  /\ pc' = "done"
  /\ otp' = OtpIdle
  /\ crc' = CrcIdle
  /\ outcomes' = {}

CallParseSyncResponse ==
  /\ pc = "idle"
  /\ \E sync_response \in SyncResponses :
       call' = parse_sync_response(sync_response)
  /\ pc' = "done"
  /\ otp' = OtpIdle
  /\ crc' = CrcIdle
  /\ outcomes' = {}

CallDecryptOtp ==
  /\ pc = "idle"
  /\ \E urls \in UrlLists, decryptor \in Decryptors :
       LET st == decrypt_otp(urls, decryptor)
       IN  /\ otp' = st
           /\ pc' = IF st.at = "loop" THEN "otp" ELSE "done"
           /\ outcomes' = Recorded(outcomes, st)
  /\ call' = NoCall
  /\ crc' = CrcIdle

\* the loop of decrypt_otp queries the endpoint it is at
OtpQuery ==
  /\ pc = "otp"
  /\ \E reply \in KsmReplies :
       LET st == OtpAfterReply(otp, reply)
       IN  /\ otp' = st
           /\ pc' = IF st.at = "loop" THEN "otp" ELSE "done"
           /\ outcomes' = Recorded(outcomes, st)
  /\ UNCHANGED <<call, crc>>

\* calculate_crc is called, by itself or by check_crc
CallCalculateCrc ==
  /\ pc = "idle"
  /\ \E fn \in {"calculate_crc", "check_crc"}, token \in CrcTokens :
       LET st == CrcEnter(fn, token)
       IN  /\ crc' = st
           /\ pc' = IF st.at = "raised" THEN "done" ELSE "crc"
  /\ call' = NoCall
  /\ otp' = OtpIdle
  /\ outcomes' = {}

\* the outer loop takes the next byte of the token
CrcByteStep ==
  /\ pc = "crc"
  /\ crc.at = "byte"
  /\ crc' = CrcAtByte(crc)
  /\ pc' = IF crc'.at = "raised" THEN "done" ELSE "crc"
  /\ UNCHANGED <<call, otp, outcomes>>

\* the inner loop shifts the crc by one bit
CrcBitStep ==
  /\ pc = "crc"
  /\ crc.at = "bit"
  /\ crc' = CrcAtBit(crc)
  /\ pc' = IF crc'.at = "returned" THEN "done" ELSE "crc"
  /\ UNCHANGED <<call, otp, outcomes>>

\* the caller drops the result: every value here lives for one request
Return ==
  /\ pc = "done"
  /\ pc' = "idle"
  /\ call' = NoCall
  /\ otp' = OtpIdle
  /\ crc' = CrcIdle
  /\ UNCHANGED outcomes

Next ==
  \/ CompareCounters
  \/ CallModhex2hex
  \/ CallSign
  \/ CallWsgiResponse
  \/ CallParseSyncResponse
  \/ CallDecryptOtp
  \/ OtpQuery
  \/ CallCalculateCrc
  \/ CrcByteStep
  \/ CrcBitStep
  \/ Return

Spec == Init /\ [][Next]_vars

(***************************************************************************)
(* The claims.                                                             *)
(***************************************************************************)
AllModhex(s) == \A i \in 1..Len(s) : s[i] \in Range(ModhexChars)

\* the place, from 0, of a character in a list of characters
PlaceIn(c, list) == (CHOOSE i \in 1..Len(list) : list[i] = c) - 1

\* the inverse table: hex digits back to modhex symbols
HexToModhex(hex) ==
  [i \in 1..Len(hex) |->
     IF hex[i] \in Range(HexChars) THEN ModhexChars[PlaceIn(hex[i], HexChars) + 1]
     ELSE hex[i]]

\* what C4 says of the 16 symbols: the n-th symbol of c b d e f g h i j k l
\* n r t u v becomes the n-th hex digit, no two symbols the same digit, the
\* output is as long as the input and encoding it back gives the input
ModhexSymbolsDecoded ==
  /\ Len(call.ret) = Len(call.modhex)
  /\ \A i \in 1..Len(call.modhex) :
       call.modhex[i] \in Range(ModhexChars) =>
         /\ call.ret[i] \in Range(HexChars)
         /\ PlaceIn(call.ret[i], HexChars) = PlaceIn(call.modhex[i], ModhexChars)
  /\ \A i, j \in 1..Len(call.modhex) :
       /\ call.modhex[i] \in Range(ModhexChars)
       /\ call.modhex[j] \in Range(ModhexChars)
       /\ call.modhex[i] # call.modhex[j]
       => call.ret[i] # call.ret[j]
  /\ AllModhex(call.modhex) => HexToModhex(call.ret) = call.modhex

\* C4: modhex2hex maps each of the 16 modhex symbols onto the hex digit of
\* the same place, one-to-one, the output is as long as the input and
\* encoding it back with the inverse table gives the input; an input holding
\* a character outside the modhex alphabet fails with InvalidEncoding.
C4_ModhexDecodeRejects ==
  call.fn = "modhex2hex" =>
    /\ AllModhex(call.modhex) => ModhexSymbolsDecoded
    /\ ~AllModhex(call.modhex) => call.raised = "InvalidEncoding"

\* C5: of counters_gt(a, b), counters_gt(b, a) and counters_eq(a, b) exactly
\* one holds, and a larger yk_counter makes a the greater whatever yk_use is.
C5_CountersTrichotomy ==
  call.fn = "counters" =>
    /\ \/ call.gt /\ ~call.lt /\ ~call.eq
       \/ ~call.gt /\ call.lt /\ ~call.eq
       \/ ~call.gt /\ ~call.lt /\ call.eq
    /\ call.params1.yk_counter > call.params2.yk_counter => call.gt
    /\ call.params1.yk_counter = call.params2.yk_counter =>
         (call.gt <=> call.params1.yk_use > call.params2.yk_use)

\* C5's case: the larger counter has made a the greater against the larger
\* yk_use of b
C5_Witness ==
  /\ call.fn = "counters"
  /\ call.params1.yk_counter > call.params2.yk_counter
  /\ call.params1.yk_use < call.params2.yk_use
  /\ call.gt
  /\ ~call.lt
  /\ ~call.eq

\* C10: counters_gte(a, b) is counters_gt(a, b) or counters_eq(a, b).
C10_GteIsGtOrEq ==
  call.fn = "counters" => (call.gte <=> (call.gt \/ call.eq))

\* C10's case: two equal pairs, where gte holds by eq alone
C10_Witness ==
  /\ call.fn = "counters"
  /\ call.params1 = call.params2
  /\ call.gte
  /\ ~call.gt

\* the dict with the value of its i-th entry changed
WithValue(data, i, val) == [data EXCEPT ![i].v = val]

\* the orders in which n entries can be listed
Orderings(n) == { f \in [1..n -> 1..n] : \A i, j \in 1..n : i # j => f[i] # f[j] }

\* the text lists every field once as key=value, joined by &, the keys
\* ascending by code point
ListsFieldsAscending(text, data) ==
  \E f \in Orderings(Len(data)) :
    /\ \A i \in 1..(Len(data) - 1) : StrLess(data[f[i]].k, data[f[i + 1]].k)
    /\ text = Join(<<"&">>, [i \in 1..Len(data) |->
                              data[f[i]].k \o <<"=">> \o Render(data[f[i]].v)])

\* the same fields inserted in any other order give the same text
InsertionOrderIgnored(text, data) ==
  \A f \in Orderings(Len(data)) :
    QueryString([i \in 1..Len(data) |-> data[f[i]]]) = text

\* C7 as amended: the canonical string of sign lists the fields as key=value
\* joined by & in ascending key order whatever the insertion order, and
\* changing the value of one field to a value whose text (str) is different
\* changes the canonical string; an int and the str of its digits, 1 and '1',
\* are different values with the same canonical string.
C7_CanonicalStringByText ==
  call.fn = "sign" =>
    /\ ListsFieldsAscending(call.query_string, call.data)
    /\ InsertionOrderIgnored(call.query_string, call.data)
    /\ \A i \in 1..Len(call.data), val \in SignValues :
         Render(val) # Render(call.data[i].v) =>
           QueryString(WithValue(call.data, i, val)) # call.query_string

\* C7 as claimed: ascending key order whatever the insertion order, and
\* changing the value of one field to any different value changes the
\* canonical string.
C7_CanonicalStringByValue ==
  call.fn = "sign" =>
    /\ ListsFieldsAscending(call.query_string, call.data)
    /\ InsertionOrderIgnored(call.query_string, call.data)
    /\ \A i \in 1..Len(call.data), val \in SignValues :
         val # call.data[i].v =>
           QueryString(WithValue(call.data, i, val)) # call.query_string

\* C7's case: a mapping of an int and a str, inserted in descending key
\* order, has been signed
C7_Witness ==
  /\ call.fn = "sign"
  /\ call.data = <<[k |-> <<"b">>, v |-> IntV(20)], [k |-> <<"B">>, v |-> StrV(<<"x">>)]>>
  /\ call.query_string = <<"B", "=", "x", "&", "b", "=", "2", "0">>
  /\ call.ret.msg = call.query_string

\* C6: the h line of a response is sign() of the mapping made of exactly the
\* status, t and extra fields the response renders on its lines, without h.
C6_SignatureCoversRenderedLines ==
  call.fn = "wsgi_response" =>
    LET lines == call.ret
        rendered == 2..Len(lines)
    IN  /\ lines[1].k = <<"h">>
        /\ lines[1].sig = sign(call.resp_data, call.apikey)
        /\ <<"h">> \notin DictKeys(call.resp_data)
        /\ DictKeys(call.resp_data) = { lines[i].k : i \in rendered }
        /\ \A i \in rendered :
             /\ DictHas(call.resp_data, lines[i].k)
             /\ Render(DictGet(call.resp_data, lines[i].k)) = lines[i].v

\* C3: a recognized field whose value fails its pattern is not in the
\* returned record, and every line whose value is well-formed is.
C3_FailingFieldDropped ==
  call.fn = "parse_sync_response" =>
    \A i \in 1..Len(SyncChecks) :
      LET name == SyncChecks[i].name
      IN  DictHas(call.params, name) =>
            IF ReMatch(SyncChecks[i].regex, DictGet(call.params, name).s)
            THEN DictHas(call.ret, name)
            ELSE ~DictHas(call.ret, name)

\* the text begins with the token OK: the letters O and K, then the end of
\* the text or whitespace
BeginsWithTokenOK(text) ==
  /\ Len(text) >= 2
  /\ text[1] = "O"
  /\ text[2] = "K"
  /\ Len(text) > 2 => text[3] \in Whitespace

\* a request that failed has no response; a response is OK by its text
RepliedOK(reply) == reply.kind = "text" /\ BeginsWithTokenOK(reply.text)

\* C1: with no decryptor and some endpoints, the endpoints are queried one at
\* a time in listed order; a response that begins with the token OK is
\* accepted, its fields are returned decoded from hex and no later endpoint
\* is queried; an endpoint is queried only after every endpoint before it was
\* queried and gave a response that is not OK.
C1_FirstOkWinsInOrder ==
  otp.at \in {"loop", "returned", "raised"} /\ otp.how # "decryptor" =>
    /\ Len(otp.queried) <= Len(otp.urls)
    /\ \A j \in 1..Len(otp.queried) : otp.queried[j].url = otp.urls[j]
    /\ otp.at = "loop" => otp.i = Len(otp.queried) + 1
    /\ \A j \in 1..Len(otp.queried) :
         IF j < Len(otp.queried)
         THEN otp.queried[j].reply.kind = "text" /\ ~RepliedOK(otp.queried[j].reply)
         ELSE RepliedOK(otp.queried[j].reply) =>
                /\ otp.at # "loop"
                /\ otp.how = "accepted"
                /\ otp.result = KsmFields(<<>>, KsmData(otp.queried[j].reply.text))
                /\ otp.queried[j].reply.text = <<"O", "K", " ", "a", "=", "1", "f", " ", "b", "=", "2">> =>
                     otp.result = DictV(<<[k |-> <<"a">>, v |-> IntV(31)],
                                          [k |-> <<"b">>, v |-> IntV(2)]>>)

\* C1's case: the first endpoint gave a response that is not OK, the second
\* an OK response, which was returned decoded, and the third was not queried
C1_Witness ==
  /\ otp.at = "returned"
  /\ Len(otp.urls) = 3
  /\ Len(otp.queried) = 2
  /\ ~RepliedOK(otp.queried[1].reply)
  /\ RepliedOK(otp.queried[2].reply)
  /\ otp.result = DictV(<<[k |-> <<"a">>, v |-> IntV(31)], [k |-> <<"b">>, v |-> IntV(2)]>>)

\* C2: what decrypt_otp returns when nothing is configured is never what it
\* returns when every endpoint was tried and none gave an OK response.
C2_NotConfiguredDiffersFromExhausted ==
  \A o1 \in outcomes, o2 \in outcomes :
    o1[1] = "not_configured" /\ o2[1] = "exhausted" => o1[2] # o2[2]

\* the first whitespace-delimited token of a text, empty when there is none
LeadingToken(text) ==
  LET tokens == SplitWhitespace(text)
  IN  IF tokens = <<>> THEN <<>> ELSE tokens[1]

\* C9: a lookup response is taken as a success, and parsed into fields, only
\* when its leading whitespace-delimited token is exactly OK; after a
\* response with another leading token the next endpoint is tried.
C9_OnlyTokenOkAccepted ==
  otp.at \in {"loop", "returned", "raised"} =>
    \A j \in 1..Len(otp.queried) :
      LET reply == otp.queried[j].reply
      IN  reply.kind = "text" =>
            IF LeadingToken(reply.text) = <<"O", "K">>
            THEN TRUE
            ELSE /\ ~(j = Len(otp.queried) /\ otp.how = "accepted")
                 /\ j < Len(otp.urls) =>
                      \/ Len(otp.queried) > j
                      \/ otp.at = "loop" /\ otp.i = j + 1

\* the crc of the specification, a word of 16 bits: bit k of a word
SpecBit(n, k) == (n \div (2 ^ k)) % 2

\* the XOR of two words, bit by bit over the 16 bits
RECURSIVE SpecXorFrom(_, _, _)
SpecXorFrom(a, b, k) ==
  IF k > 15 THEN 0
  ELSE (IF SpecBit(a, k) = SpecBit(b, k) THEN 0 ELSE 2 ^ k) + SpecXorFrom(a, b, k + 1)

SpecXor(a, b) == SpecXorFrom(a, b, 0)

\* the shift right by 1 of a word: bit k + 1 becomes bit k, bit 15 is 0
RECURSIVE SpecShiftFrom(_, _)
SpecShiftFrom(a, k) ==
  IF k > 14 THEN 0
  ELSE SpecBit(a, k + 1) * (2 ^ k) + SpecShiftFrom(a, k + 1)

SpecShiftRight(a) == SpecShiftFrom(a, 0)

\* if the least-significant bit is 1, shift right by 1 and XOR with 0x8408
\* (bits 15, 10 and 3), otherwise just shift right by 1
SpecRound(a) ==
  IF SpecBit(a, 0) = 1
  THEN SpecXor(SpecShiftRight(a), 2 ^ 15 + 2 ^ 10 + 2 ^ 3)
  ELSE SpecShiftRight(a)

SpecRounds8(a) ==
  SpecRound(SpecRound(SpecRound(SpecRound(SpecRound(SpecRound(SpecRound(SpecRound(a))))))))

\* crc starts at 0xFFFF; each byte in order is XORed into the low 8 bits,
\* then 8 rounds (each intermediate word is computed before it is used, so
\* that the evaluation stays shallow)
RECURSIVE SpecResidue(_)
SpecResidue(bytes) ==
  IF bytes = <<>> THEN 2 ^ 16 - 1
  ELSE LET before == SpecResidue(SubSeq(bytes, 1, Len(bytes) - 1))
           mixed == IF before \in Nat THEN SpecXor(before, bytes[Len(bytes)]) ELSE before
       IN  IF mixed \in Nat THEN SpecRounds8(mixed) ELSE mixed

\* C8: calculate_crc returns the value of the specification's procedure for
\* every 16-byte block, the running crc stays in 0..0xFFFF, the block
\* 16e1e5d9d3991004452007e302000000 gives 22744, and check_crc is true
\* exactly when the result is 0xF0B8.
C8_CrcIsSpecResidue ==
  crc.at # "idle" =>
    /\ crc.crc \in 0..65535
    /\ crc.at = "byte" => crc.crc = SpecResidue(SubSeq(crc.bytes, 1, crc.i))
    /\ crc.at = "returned" =>
         /\ Len(crc.bytes) = 16
         /\ crc.crc = SpecResidue(crc.bytes)
         /\ crc.token = ReferenceToken => crc.crc = 22744
         /\ crc.fn = "calculate_crc" => crc.ret = IntV(SpecResidue(crc.bytes))
         /\ crc.fn = "check_crc" => crc.ret = BoolV(SpecResidue(crc.bytes) = 61624)

\* C8's case: calculate_crc has returned 22744 for the reference block
C8_Witness ==
  /\ crc.at = "returned"
  /\ crc.fn = "calculate_crc"
  /\ crc.token = ReferenceToken
  /\ crc.ret = IntV(22744)

====
